---- MODULE Spec2Model ----
(***************************************************************************)
(* Model of src/lua/lua_script.rs (Blightmud): the LuaScript object that   *)
(* owns one Lua state, dispatches input lines to aliases, output lines to  *)
(* triggers and prompt triggers, GMCP messages to listeners, and can be    *)
(* reset and loaded with scripts.                                          *)
(*                                                                         *)
(* The Lua globals the object reads are one record, `state`.  A dispatch   *)
(* pass is modelled iteration by iteration, because every callback it      *)
(* invokes is script code that may change the very table being iterated.   *)
(* Script code (a callback body, a loaded script) is an arbitrary program: *)
(* each run executes one statement of the registration surface, chosen     *)
(* nondeterministically, and then either returns or raises an error.       *)
(***************************************************************************)
EXTENDS Integers, Sequences, FiniteSets, TLC

VARIABLES
    state,      \* the Lua globals: the four tables and the two hooks
    writer,     \* events sent on the Sender<Event> during the current host call
    pc,         \* "idle", "alias" / "trigger" (inside a pass), or "panic"
    call,       \* the host call in progress or last returned
    fired,      \* script code run during the current host call (callbacks, hooks,
                \* a loaded script), in order
    snap,       \* history: the table the call reads (for reset, load_script and
                \* the hooks, the whole Lua state), as it was when the call began
    visited     \* history: the slots the pass has examined, each as it was then

vars == <<state, writer, pc, call, fired, snap, visited>>

\* ------------------------------------------------------------------ bounds

\* Most things the scripts may have registered (table slots, listeners, hooks).
MaxEntries == 2

\* ------------------------------------------------------------------ values

Nil == [type |-> "nil"]
Fn == [type |-> "function"]

\* A Lua value that is neither an Alias nor a Trigger userdata.
Junk == [type |-> "string"]

\* Whether a table slot converts to the userdata the loops borrow.
IsEntry(v) == v.type \in {"alias", "trigger"}

ESC == "\\x1b"

Regexes == {"a", "^b"}

\* A pattern with an optional group, and the lines it is tried on.
GroupRegex == "^(a)?(b)"
CaptureInputs == { <<"a", "b">>, <<"b">>, <<"a">>, <<ESC, "[", "m", "b">> }

\* Lines handed to the three check_* operations.
Inputs == { <<"a">>, <<"b">>, <<"b", "a">>, <<ESC, "[", "m", "b">> }

GmcpData ==
    { <<"x">>, <<"x", " ">>, <<"x", " ", "x">>, <<" ", "x">>,
      <<"x", "x", " ">>, <<"x", " ", " ">> }
GmcpKeys == { <<"x">>, <<"x", "x">> }

PatternTables == {"alias_table", "trigger_table", "prompt_trigger_table"}
Hooks == {"on_connect", "on_gmcp_ready"}

\* Regex::is_match for the patterns of the model, on a sequence of characters.
IsMatch(regex, input) ==
    CASE regex = "a" -> \E i \in 1..Len(input) : input[i] = "a"
      [] regex = "^b" -> Len(input) > 0 /\ input[1] = "b"
      [] regex = GroupRegex ->
            \/ Len(input) > 0 /\ input[1] = "b"
            \/ Len(input) > 1 /\ input[1] = "a" /\ input[2] = "b"

\* Option<Match>
None == [some |-> FALSE, text |-> <<>>]
Some(text) == [some |-> TRUE, text |-> text]

\* Regex::captures(input).unwrap() for a matching input: group 0 (the whole match)
\* and then every group of the pattern, None for a group that took no part.
Captures(regex, input) ==
    CASE regex = "a" -> << Some(<<"a">>) >>
      [] regex = "^b" -> << Some(<<"b">>) >>
      [] regex = GroupRegex ->
            IF input[1] = "a"
            THEN << Some(<<"a", "b">>), Some(<<"a">>), Some(<<"b">>) >>
            ELSE << Some(<<"b">>), None, Some(<<"b">>) >>

\* Mutant of CaptureArgs: a group that took no part is left out.
CaptureArgs_SkipsNone(captures) ==
    LET matched == SelectSeq(captures, LAMBDA c : c.some)
    IN  [i \in DOMAIN matched |-> matched[i].text]

\* captures.iter().map(|c| match c { Some(m) => m.as_str().to_string(),
\*                                   None => String::new() }).collect()
CaptureArgs(captures) ==
    [i \in DOMAIN captures |-> IF captures[i].some THEN captures[i].text ELSE <<>>]

\* Mutant of strip_ansi: the line is matched as received.
strip_ansi_Identity(bytes) == bytes

\* strip_ansi: drops every escape sequence ESC [ ... <letter>.
RECURSIVE StripFrom(_, _, _)
StripFrom(bytes, i, inEscape) ==
    IF i > Len(bytes) THEN <<>>
    ELSE IF inEscape
         THEN StripFrom(bytes, i + 1, bytes[i] = "[")
         ELSE IF bytes[i] = ESC
              THEN StripFrom(bytes, i + 1, TRUE)
              ELSE <<bytes[i]>> \o StripFrom(bytes, i + 1, FALSE)

strip_ansi(bytes) == StripFrom(bytes, 1, FALSE)

\* ------------------------------------------------------------------ the Lua state

create_default_lua_state ==
    [ alias_table |-> <<>>,
      trigger_table |-> <<>>,
      prompt_trigger_table |-> <<>>,
      gmcp_listener_table |-> [k \in GmcpKeys |-> Nil],
      on_connect |-> Nil,
      on_gmcp_ready |-> Nil ]

\* What a script has registered so far.
Registered(st) ==
    Len(st.alias_table) + Len(st.trigger_table) + Len(st.prompt_trigger_table)
    + Cardinality({k \in GmcpKeys : st.gmcp_listener_table[k] # Nil})
    + Cardinality({h \in Hooks : st[h] # Nil})

\* ------------------------------------------------------------------ script code

\* The entry a registration call creates.  `home` is history: the collection the
\* script registered it in.
NewEntry(table, regex, gag) ==
    IF table = "alias_table"
    THEN [type |-> "alias", regex |-> regex, enabled |-> TRUE, home |-> table]
    ELSE [type |-> "trigger", regex |-> regex, enabled |-> TRUE, gag |-> gag,
          home |-> table]

\* Whether the model lets a script register one more thing.
Room(st) == Registered(st) < MaxEntries

\* The statements script code can run in Lua state st: the registration calls, and
\* a plain assignment of a string to the next key of one of the global tables.  `held` is the slot the
\* running pass keeps borrowed (<<table, index>>, or <<>>): its entry cannot be
\* borrowed mutably by the callback.
Statements(st, held) ==
    {[op |-> "none"]}
    \cup { s \in [op : {"add"}, table : PatternTables, regex : Regexes, gag : BOOLEAN] :
             /\ Room(st)
             /\ s.table = "alias_table" => ~s.gag }
    \cup UNION { { [op |-> "remove", table |-> t, idx |-> i] :
                     i \in {j \in DOMAIN st[t] : st[t][j] # Nil} } :
                 t \in PatternTables }
    \cup UNION { { [op |-> "set_enabled", table |-> t, idx |-> i,
                    val |-> ~st[t][i].enabled] :
                     i \in {j \in DOMAIN st[t] : IsEntry(st[t][j]) /\ <<t, j>> # held} } :
                 t \in PatternTables }
    \cup { [op |-> "store", table |-> t] : t \in {u \in PatternTables : Room(st)} }
    \cup { [op |-> "add_gmcp_listener", key |-> k] :
             k \in {j \in GmcpKeys : st.gmcp_listener_table[j] # Nil \/ Room(st)} }
    \cup { [op |-> "set_hook", hook |-> h] :
             h \in {j \in Hooks : st[j] # Nil \/ Room(st)} }

\* The Lua state after statement s.
Exec(st, s) ==
    CASE s.op = "none" -> st
      [] s.op = "add" ->
            [st EXCEPT ![s.table] = Append(@, NewEntry(s.table, s.regex, s.gag))]
      [] s.op = "remove" -> [st EXCEPT ![s.table][s.idx] = Nil]
      [] s.op = "store" -> [st EXCEPT ![s.table] = Append(@, Junk)]
      [] s.op = "set_enabled" -> [st EXCEPT ![s.table][s.idx].enabled = s.val]
      [] s.op = "add_gmcp_listener" -> [st EXCEPT !.gmcp_listener_table[s.key] = Fn]
      [] s.op = "set_hook" -> [st EXCEPT ![s.hook] = Fn]

\* Every way one run of script code can end: the statement it ran, the Lua state
\* it leaves and whether it returned (ok) or raised an error.
Runs(st, held) ==
    { [st |-> Exec(st, s), ok |-> r, stmt |-> s] :
         s \in Statements(st, held), r \in BOOLEAN }

\* ------------------------------------------------------------------ helpers

\* output_stack_trace: one Error event on the channel.
output_stack_trace(w) == Append(w, "Error")

\* Mutant of NextKey: the table is walked from its last key down to its first.
NextKey_Descending(table, key) ==
    LET below == {i \in DOMAIN table : table[i] # Nil /\ (key = 0 \/ i < key)}
    IN  IF below = {} \/ key = 1 THEN 0
        ELSE CHOOSE i \in below : \A j \in below : j <= i

\* Table::pairs, one step: the first key after `key` that holds a value, 0 at the end.
\* The iterator keeps only the last key and reads the live table at every step, so
\* it sees what callbacks have written since the loop began.
NextKey(table, key) ==
    IF \E i \in DOMAIN table : i > key /\ table[i] # Nil
    THEN CHOOSE i \in DOMAIN table :
            /\ i > key /\ table[i] # Nil
            /\ \A j \in DOMAIN table : (j > key /\ table[j] # Nil) => i <= j
    ELSE 0

\* Mutant of AliasSelected: the pattern is not consulted.
AliasSelected_AnyInput(rust_alias, input) == rust_alias.enabled

\* The condition under which the alias loop invokes the callback.
AliasSelected(rust_alias, input) ==
    rust_alias.enabled /\ IsMatch(rust_alias.regex, input)

\* Mutant of TriggerSelected: the enabled flag is not consulted.
TriggerSelected_IgnoresEnabled(rust_trigger, input) ==
    IsMatch(rust_trigger.regex, input)

\* The condition under which the trigger loop invokes the callback.
TriggerSelected(rust_trigger, input) ==
    rust_trigger.enabled /\ IsMatch(rust_trigger.regex, input)

\* Mutant of Report: the error of a failing callback is dropped.
Report_Dropped(w, ok) == w

\* if let Err(msg) = cb.call(..) { output_stack_trace(..) }
Report(w, ok) == IF ok THEN w ELSE output_stack_trace(w)

\* Mutant of GmcpReport: the error of a failing listener is reported like the others.
GmcpReport_Logged(w, ok) == IF ok THEN w ELSE output_stack_trace(w)

\* func.call(content)? inside the context closure, whose result ends in .ok()
GmcpReport(w, ok) == w

\* Mutant of LoadResult: the script's error goes to the caller.
LoadResult_Propagates(ok) == IF ok THEN "Ok" ELSE "Err"

\* Ok(()) after the if-let that reports the script's error
LoadResult(ok) == "Ok"

\* Mutant of LoadedState: a script that raised an error leaves nothing behind.
LoadedState_RolledBack(old, new, ok) == IF ok THEN new ELSE old

\* ctx.load(&content).exec() runs in the live Lua state: what the script did
\* before its error stays.
LoadedState(old, new, ok) == new

\* Mutant of AliasResponse: only a callback that succeeded counts as a match.
AliasResponse_OnSuccess(response, ok) == response \/ ok

\* response = true, after the callback of a selected alias
AliasResponse(response, ok) == TRUE

\* Mutant of TriggerResponse: the line is gagged as soon as one match gags.
TriggerResponse_AnyGag(response, gag, ok) == response \/ gag

\* response = rust_trigger.gag, after the callback of a selected trigger
TriggerResponse(response, gag, ok) == gag

\* data.splitn(2, ' ')
RECURSIVE FirstSpace(_, _)
FirstSpace(data, i) ==
    IF i > Len(data) THEN 0
    ELSE IF data[i] = " " THEN i ELSE FirstSpace(data, i + 1)

\* Mutant of splitn2: data.split(' '), keeping the first two pieces.
splitn2_EverySpace(data) ==
    LET p == FirstSpace(data, 1)
        q == IF p = 0 THEN 0 ELSE FirstSpace(data, p + 1)
    IN  IF p = 0 THEN <<data>>
        ELSE << SubSeq(data, 1, p - 1),
                SubSeq(data, p + 1, IF q = 0 THEN Len(data) ELSE q - 1) >>

splitn2(data) ==
    LET p == FirstSpace(data, 1)
    IN  IF p = 0 THEN <<data>>
        ELSE << SubSeq(data, 1, p - 1), SubSeq(data, p + 1, Len(data)) >>

\* listener_table.get::<_, rlua::Function>(msg_type)
Lookup(table, key) == IF key \in DOMAIN table THEN table[key] ELSE Nil

\* `input` is the text the call matches on; `raw` is history: the argument the
\* host passed.
NewCall(op, table, input) ==
    [op |-> op, table |-> table, input |-> input, raw |-> input, key |-> 0,
     response |-> FALSE, result |-> "", returned |-> FALSE]

Returned(c) == [c EXCEPT !.returned = TRUE]

\* ------------------------------------------------------------------ Init

Init ==
    /\ state = create_default_lua_state
    /\ writer = <<>>
    /\ pc = "idle"
    /\ call = Returned(NewCall("new", "", <<>>))
    /\ fired = <<>>
    /\ snap = <<>>
    /\ visited = <<>>

\* ------------------------------------------------------------------ operations

\* Mutant of reset: the pattern tables are cleared in place, the rest is kept.
reset_PatternTablesOnly ==
    /\ pc = "idle"
    /\ state' = [state EXCEPT !.alias_table = <<>>, !.trigger_table = <<>>,
                              !.prompt_trigger_table = <<>>]
    /\ call' = Returned(NewCall("reset", "", <<>>))
    /\ writer' = <<>>
    /\ fired' = <<>>
    /\ snap' = state
    /\ visited' = <<>>
    /\ UNCHANGED pc

reset ==
    /\ pc = "idle"
    /\ state' = create_default_lua_state
    /\ call' = Returned(NewCall("reset", "", <<>>))
    /\ writer' = <<>>
    /\ fired' = <<>>
    /\ snap' = state
    /\ visited' = <<>>
    /\ UNCHANGED pc

check_for_alias_match(input) ==
    /\ pc = "idle"
    /\ pc' = "alias"
    /\ call' = NewCall("check_for_alias_match", "alias_table", input)
    /\ writer' = <<>>
    /\ fired' = <<>>
    /\ snap' = state.alias_table
    /\ visited' = <<>>
    /\ UNCHANGED state

\* One iteration of the for loop over alias_table.pairs(), or the return after it.
alias_loop ==
    /\ pc = "alias"
    /\ LET alias_table == state.alias_table
           k == NextKey(alias_table, call.key)
       IN  IF k = 0
           THEN /\ pc' = "idle"
                /\ call' = Returned(call)
                /\ UNCHANGED <<state, writer, fired, snap, visited>>
           ELSE IF ~IsEntry(alias_table[k])
           THEN \* pair.unwrap() on the failed conversion to AnyUserData
                /\ pc' = "panic"
                /\ call' = [call EXCEPT !.key = k]
                /\ UNCHANGED <<state, writer, fired, snap, visited>>
           ELSE LET rust_alias == alias_table[k]
                IN  /\ visited' = Append(visited, [key |-> k, entry |-> rust_alias])
                    /\ UNCHANGED <<pc, snap>>
                    /\ IF AliasSelected(rust_alias, call.input)
                       THEN \E run \in Runs(state, <<"alias_table", k>>) :
                               /\ state' = run.st
                               /\ writer' = Report(writer, run.ok)
                               /\ call' = [call EXCEPT
                                             !.key = k,
                                             !.response = AliasResponse(@, run.ok)]
                               /\ fired' = Append(fired,
                                     [key |-> k, ok |-> run.ok,
                                      args |-> CaptureArgs(
                                         Captures(rust_alias.regex, call.input))])
                       ELSE /\ call' = [call EXCEPT !.key = k]
                            /\ UNCHANGED <<state, writer, fired>>

check_trigger_match(op, raw, table) ==
    /\ pc = "idle"
    /\ pc' = "trigger"
    /\ call' = [NewCall(op, table, strip_ansi(raw)) EXCEPT !.raw = raw]
    /\ writer' = <<>>
    /\ fired' = <<>>
    /\ snap' = state[table]
    /\ visited' = <<>>
    /\ UNCHANGED state

check_for_trigger_match(input) ==
    check_trigger_match("check_for_trigger_match", input, "trigger_table")

\* Mutant of check_for_prompt_trigger_match: the prompt check scans the triggers.
check_for_prompt_trigger_match_TriggerTable(input) ==
    check_trigger_match("check_for_prompt_trigger_match", input, "trigger_table")

check_for_prompt_trigger_match(input) ==
    check_trigger_match("check_for_prompt_trigger_match", input, "prompt_trigger_table")

\* One iteration of the for loop over trigger_table.pairs(), or the return after it.
trigger_loop ==
    /\ pc = "trigger"
    /\ LET trigger_table == state[call.table]
           k == NextKey(trigger_table, call.key)
       IN  IF k = 0
           THEN /\ pc' = "idle"
                /\ call' = Returned(call)
                /\ UNCHANGED <<state, writer, fired, snap, visited>>
           ELSE IF ~IsEntry(trigger_table[k])
           THEN \* pair.unwrap() on the failed conversion to AnyUserData
                /\ pc' = "panic"
                /\ call' = [call EXCEPT !.key = k]
                /\ UNCHANGED <<state, writer, fired, snap, visited>>
           ELSE LET rust_trigger == trigger_table[k]
                IN  /\ visited' = Append(visited, [key |-> k, entry |-> rust_trigger])
                    /\ UNCHANGED <<pc, snap>>
                    /\ IF TriggerSelected(rust_trigger, call.input)
                       THEN \E run \in Runs(state, <<call.table, k>>) :
                               /\ state' = run.st
                               /\ writer' = Report(writer, run.ok)
                               /\ call' = [call EXCEPT
                                             !.key = k,
                                             !.response =
                                                TriggerResponse(@, rust_trigger.gag, run.ok)]
                               /\ fired' = Append(fired,
                                     [key |-> k, ok |-> run.ok,
                                      args |-> CaptureArgs(
                                         Captures(rust_trigger.regex, call.input))])
                       ELSE /\ call' = [call EXCEPT !.key = k]
                            /\ UNCHANGED <<state, writer, fired>>

receive_gmcp(data) ==
    /\ pc = "idle"
    /\ snap' = state.gmcp_listener_table
    /\ visited' = <<>>
    /\ LET split == splitn2(data)
       IN  IF Len(split) < 2
           THEN \* split[1] is out of bounds
                /\ pc' = "panic"
                /\ call' = NewCall("receive_gmcp", "gmcp_listener_table", data)
                /\ fired' = <<>>
                /\ writer' = <<>>
                /\ UNCHANGED state
           ELSE LET msg_type == split[1]
                    content == split[2]
                IN  /\ call' = Returned(NewCall("receive_gmcp", "gmcp_listener_table", data))
                    /\ UNCHANGED pc
                    /\ IF Lookup(state.gmcp_listener_table, msg_type) = Fn
                       THEN \E run \in Runs(state, <<>>) :
                               /\ state' = run.st
                               /\ writer' = GmcpReport(<<>>, run.ok)
                               /\ fired' = << [key |-> msg_type, arg |-> content,
                                               ok |-> run.ok] >>
                       ELSE /\ fired' = <<>>
                            /\ writer' = <<>>
                            /\ UNCHANGED state

load_script(exists) ==
    /\ pc = "idle"
    /\ snap' = state
    /\ visited' = <<>>
    /\ UNCHANGED pc
    /\ IF ~exists
       THEN \* File::open fails: the error goes to the caller
            /\ call' = [Returned(NewCall("load_script", "", <<>>)) EXCEPT !.result = "Err"]
            /\ writer' = <<>>
            /\ fired' = <<>>
            /\ UNCHANGED state
       ELSE \E run \in Runs(state, <<>>) :
               /\ state' = LoadedState(state, run.st, run.ok)
               /\ writer' = Report(<<>>, run.ok)
               /\ fired' = << [key |-> "script", stmt |-> run.stmt, ok |-> run.ok] >>
               /\ call' = [Returned(NewCall("load_script", "", <<>>))
                               EXCEPT !.result = LoadResult(run.ok)]

\* on_connect and on_gmcp_ready: the same body over two global names.
call_hook(hook) ==
    /\ pc = "idle"
    /\ writer' = <<>>
    /\ snap' = state
    /\ visited' = <<>>
    /\ IF state[hook] = Fn
       THEN \E run \in Runs(state, <<>>) :
               /\ state' = run.st
               /\ fired' = << [key |-> hook, args |-> <<>>, ok |-> run.ok] >>
               /\ IF run.ok
                  THEN /\ call' = Returned(NewCall(hook, "", <<>>))
                       /\ UNCHANGED pc
                  ELSE \* .unwrap() on the Err
                       /\ call' = NewCall(hook, "", <<>>)
                       /\ pc' = "panic"
       ELSE /\ call' = Returned(NewCall(hook, "", <<>>))
            /\ fired' = <<>>
            /\ UNCHANGED <<state, pc>>

on_connect == call_hook("on_connect")

on_gmcp_ready == call_hook("on_gmcp_ready")

\* ------------------------------------------------------------------ specification

Next ==
    \/ reset
    \/ \E input \in Inputs : check_for_alias_match(input)
    \/ alias_loop
    \/ \E input \in Inputs : check_for_trigger_match(input)
    \/ \E input \in Inputs : check_for_prompt_trigger_match(input)
    \/ trigger_loop
    \/ \E data \in GmcpData : receive_gmcp(data)
    \/ \E exists \in BOOLEAN : load_script(exists)
    \/ on_connect
    \/ on_gmcp_ready

Spec == Init /\ [][Next]_vars

\* The checks on a pattern with groups: the Lua state after a script registered one
\* alias or one trigger with GroupRegex, and the two passes on CaptureInputs.
InitCaptures ==
    /\ \E t \in {"alias_table", "trigger_table"} :
          state = [create_default_lua_state EXCEPT
                      ![t] = << NewEntry(t, GroupRegex, FALSE) >>]
    /\ writer = <<>>
    /\ pc = "idle"
    /\ call = Returned(NewCall("new", "", <<>>))
    /\ fired = <<>>
    /\ snap = <<>>
    /\ visited = <<>>

NextCaptures ==
    \/ \E input \in CaptureInputs : check_for_alias_match(input)
    \/ alias_loop
    \/ \E input \in CaptureInputs : check_for_trigger_match(input)
    \/ trigger_loop

SpecCaptures == InitCaptures /\ [][NextCaptures]_vars

\* ------------------------------------------------------------------ properties

AliasCall == call.op = "check_for_alias_match"

TriggerCall ==
    call.op \in {"check_for_trigger_match", "check_for_prompt_trigger_match"}

PassCall == AliasCall \/ TriggerCall

GmcpCall == call.op = "receive_gmcp"

FiredKeys == {fired[j].key : j \in DOMAIN fired}

VisitedKeys == {visited[j].key : j \in DOMAIN visited}

Times(k) == Cardinality({j \in DOMAIN fired : fired[j].key = k})

\* An entry that is present, enabled and whose pattern matches the line.
Fires(e, input) == IsEntry(e) /\ e.enabled /\ IsMatch(e.regex, input)

\* Slot k held an entry when the pass began and still holds one: removed slots are
\* never refilled, so the entry was in the table during the whole pass.
Stays(k) == k \in DOMAIN snap /\ snap[k] # Nil /\ state[call.table][k] # Nil

\* The visited slots whose entry, as examined, was enabled and matched.
Selected == SelectSeq(visited, LAMBDA v : Fires(v.entry, call.input))

Empty(st) ==
    /\ st.alias_table = <<>>
    /\ st.trigger_table = <<>>
    /\ st.prompt_trigger_table = <<>>
    /\ \A k \in GmcpKeys : st.gmcp_listener_table[k] = Nil
    /\ st.on_connect = Nil
    /\ st.on_gmcp_ready = Nil

\* C1: in one check_for_alias_match call every alias of the table is examined
\* exactly once, and an alias that is enabled and matches the input when it is
\* examined has its callback invoked exactly once in the call; no other callback is
\* invoked, and none twice.
C1_AliasFiresExactlyOnce ==
    AliasCall =>
        /\ \A i, j \in DOMAIN visited : i < j => visited[i].key < visited[j].key
        /\ \A j \in DOMAIN visited :
              Times(visited[j].key)
                 = (IF Fires(visited[j].entry, call.input) THEN 1 ELSE 0)
        /\ FiredKeys \subseteq VisitedKeys
        /\ call.returned => \A k \in DOMAIN snap : Stays(k) => k \in VisitedKeys

\* C1 witness: a returned alias pass over two aliases that both fired.
C1_Witness ==
    /\ AliasCall /\ call.returned
    /\ Len(snap) = 2 /\ Len(fired) = 2
    /\ \A k \in 1..2 : Fires(snap[k], call.input)

C3_DisabledNeverMatches ==
    PassCall =>
        /\ \A j \in DOMAIN visited :
              ~visited[j].entry.enabled => visited[j].key \notin FiredKeys
        /\ call.returned =>
              LET en == SelectSeq(visited,
                            LAMBDA v : v.entry.enabled
                                       /\ IsMatch(v.entry.regex, call.input))
              IN  call.response =
                     (IF AliasCall THEN en # <<>>
                      ELSE en # <<>> /\ en[Len(en)].entry.gag)

\* C3 witness: a returned pass that examined a disabled entry whose pattern matches
\* the line.
C3_Witness ==
    /\ PassCall /\ call.returned
    /\ \E j \in DOMAIN visited :
          /\ ~visited[j].entry.enabled
          /\ IsMatch(visited[j].entry.regex, call.input)

\* C4: check_for_alias_match returns true exactly when the alias table holds, at the
\* call, an enabled alias whose pattern matches the input, whether the callbacks
\* succeed or fail.
C4_AliasResultIsMatched ==
    (AliasCall /\ call.returned) =>
        (call.response <=> \E k \in DOMAIN snap : Fires(snap[k], call.input))

\* C4 witness: a returned alias pass whose only invoked callback failed.
C4_Witness ==
    /\ AliasCall /\ call.returned
    /\ Len(fired) = 1 /\ ~fired[1].ok
    /\ call.response

\* C5: check_for_trigger_match and check_for_prompt_trigger_match return the gag
\* flag of the last entry the scan found enabled and matching, and false when it
\* found none.
C5_LastMatchDecidesGag ==
    (TriggerCall /\ call.returned) =>
        /\ Len(Selected) = Len(fired)
        /\ call.response = (Selected # <<>> /\ Selected[Len(Selected)].entry.gag)
        /\ \A k \in DOMAIN snap :
              (state[call.table] = snap /\ Fires(snap[k], call.input)
                 /\ \A m \in DOMAIN snap : m > k => ~Fires(snap[m], call.input))
              => call.response = snap[k].gag

\* C5 witness: two matching triggers, gag=false registered first and gag=true second,
\* and the pass returned true.
C5_Witness ==
    /\ TriggerCall /\ call.returned
    /\ Len(Selected) = 2
    /\ ~Selected[1].entry.gag /\ Selected[2].entry.gag
    /\ call.response

\* C6: a callback that raises an error sends exactly one event and does not end the
\* pass: the events of a pass are one per failed callback, and every entry after
\* the failing one is still examined and, when enabled and matching, invoked.
C6_ErrorIsReportedAndIsolated ==
    PassCall =>
        /\ Len(writer) = Cardinality({j \in DOMAIN fired : ~fired[j].ok})
        /\ \A i \in DOMAIN writer : writer[i] = "Error"
        /\ call.returned =>
              \A j \in DOMAIN fired :
                 ~fired[j].ok =>
                    /\ \A k \in DOMAIN snap :
                          (k > fired[j].key /\ Stays(k)) => k \in VisitedKeys
                    /\ \A i \in DOMAIN visited :
                          (visited[i].key > fired[j].key
                             /\ Fires(visited[i].entry, call.input))
                          => visited[i].key \in FiredKeys

\* C6 witness: a returned pass whose first callback failed and whose second was
\* invoked after it.
C6_Witness ==
    /\ PassCall /\ call.returned
    /\ Len(fired) = 2 /\ ~fired[1].ok /\ fired[2].ok
    /\ Len(writer) = 1

\* C7, as claimed: the callbacks invoked in a pass are those of the entries that
\* were present, enabled and matching when the pass began, whatever the callbacks
\* register, remove or disable meanwhile.
C7_SnapshotDecidesPass ==
    (PassCall /\ call.returned) =>
        FiredKeys = {k \in DOMAIN snap : Fires(snap[k], call.input)}

\* C8: reset leaves the four tables empty and the two hooks absent, and as long as
\* the Lua state is like that every host call other than load_script invokes no
\* callback, answers false and leaves it like that.
C8_ResetDiscardsEverything ==
    /\ [](call.op = "reset" => Empty(state))
    /\ [][(Empty(state) /\ call'.op # "load_script")
             => (fired' = <<>> /\ ~call'.response /\ Empty(state'))]_vars

\* C8 witness: reset has discarded a Lua state that held two registrations.
C8_Witness ==
    /\ call.op = "reset"
    /\ Registered(snap) = 2
    /\ Empty(state)

\* C9, as claimed: receive_gmcp of a string without a space invokes nothing, sends
\* nothing and returns normally.
C9_NoSpaceIsDropped ==
    (GmcpCall /\ \A i \in DOMAIN call.input : call.input[i] # " ") =>
        /\ pc = "idle" /\ call.returned
        /\ fired = <<>> /\ writer = <<>>

\* C10: receive_gmcp of a string with a space cuts it at its first space and invokes
\* the listener stored under exactly the part before it, once, with the part after
\* it; with no listener under that key it invokes nothing.
C10_GmcpDispatchesOnFirstSpace ==
    (GmcpCall /\ call.returned) =>
        LET data == call.input
            p == CHOOSE i \in DOMAIN data :
                    data[i] = " " /\ \A j \in 1..(i - 1) : data[j] # " "
            msg_type == [i \in 1..(p - 1) |-> data[i]]
            content == [i \in 1..(Len(data) - p) |-> data[p + i]]
        IN  IF msg_type \in DOMAIN snap /\ snap[msg_type] = Fn
            THEN /\ Len(fired) = 1
                 /\ fired[1].key = msg_type
                 /\ fired[1].arg = content
            ELSE fired = <<>>

\* C10 witness: a listener was invoked with a content that itself holds a space.
C10_Witness ==
    /\ GmcpCall /\ call.returned
    /\ Len(fired) = 1
    /\ \E i \in DOMAIN fired[1].arg : fired[1].arg[i] = " "

\* C11: when the listener invoked by receive_gmcp raises an error, no event is
\* sent, the call returns normally, and every listener that was registered when the
\* call began, the failing one included, is still registered.
C11_GmcpErrorIsDiscarded ==
    (GmcpCall /\ fired # <<>> /\ ~fired[1].ok) =>
        /\ writer = <<>>
        /\ pc = "idle" /\ call.returned
        /\ state.gmcp_listener_table[fired[1].key] = Fn
        /\ \A k \in GmcpKeys : snap[k] = Fn => state.gmcp_listener_table[k] = Fn

\* C11 witness: receive_gmcp has returned after its listener raised an error.
C11_Witness ==
    /\ GmcpCall /\ call.returned
    /\ Len(fired) = 1 /\ ~fired[1].ok

LoadCall == call.op = "load_script"

\* C12: load_script of a readable file answers Ok whether or not the script failed,
\* and sends one event when the script failed and none when it did not.
C12_LoadReportsAndSucceeds ==
    (LoadCall /\ fired # <<>>) =>
        /\ call.returned /\ pc = "idle"
        /\ call.result = "Ok"
        /\ writer = (IF fired[1].ok THEN <<>> ELSE <<"Error">>)

\* C12 witness: load_script has answered Ok for a script that raised an error.
C12_Witness ==
    /\ LoadCall /\ call.returned
    /\ Len(fired) = 1 /\ ~fired[1].ok
    /\ call.result = "Ok" /\ Len(writer) = 1

HookCall == call.op \in Hooks

\* C16, as claimed: on_connect and on_gmcp_ready do nothing when the hook is absent
\* (no callback, no event, Lua state unchanged, normal return); invoke it once with
\* no arguments when it is present; and when it raises an error return to the
\* caller with an error outcome and no event.
C16_HookFailureIsReturned ==
    HookCall =>
        /\ writer = <<>>
        /\ snap[call.op] = Nil =>
               (fired = <<>> /\ state = snap /\ pc = "idle" /\ call.returned)
        /\ snap[call.op] = Fn =>
               /\ Len(fired) = 1 /\ fired[1].key = call.op /\ fired[1].args = <<>>
               /\ pc = "idle" /\ call.returned
               /\ call.result = (IF fired[1].ok THEN "" ELSE "Err")

\* C19: what a loaded script registered before it raised an error is in the Lua
\* state when load_script returns, exactly as for a script that raised none; the
\* dispatch pass that follows scans the registry as the load left it; and a host
\* step that runs no script code and is not reset removes nothing.
C19_LoadHasNoRollback ==
    /\ []((LoadCall /\ fired # <<>>) =>
            /\ state = Exec(snap, fired[1].stmt)
            /\ fired[1].stmt.op = "add" =>
                   /\ Len(state[fired[1].stmt.table]) = Len(snap[fired[1].stmt.table]) + 1
                   /\ Fires(state[fired[1].stmt.table][Len(state[fired[1].stmt.table])],
                            <<"b", "a">>))
    /\ [][(LoadCall /\ PassCall') => (snap' = state[call'.table] /\ state' = state)]_vars
    /\ [][(fired' = <<>> /\ call'.op # "reset") => state' = state]_vars

\* C19 witness: load_script has returned after a script that registered an alias
\* and then raised an error, and the alias is in the table.
C19_Witness ==
    /\ LoadCall /\ call.returned
    /\ Len(fired) = 1 /\ ~fired[1].ok
    /\ fired[1].stmt.op = "add" /\ fired[1].stmt.table = "alias_table"
    /\ Registered(state) = Registered(snap) + 1
    /\ state.alias_table[Len(state.alias_table)].regex = fired[1].stmt.regex

\* The collection each check is about.
TableOf(op) ==
    CASE op = "check_for_alias_match" -> "alias_table"
      [] op = "check_for_trigger_match" -> "trigger_table"
      [] op = "check_for_prompt_trigger_match" -> "prompt_trigger_table"

\* C17: a pass scans its own collection only: every entry it examines, and so
\* every callback it invokes, was registered in the collection of the check, and a
\* pass that found nothing to examine there invokes nothing and answers false
\* whatever the other two collections hold.
C17_CollectionsAreIndependent ==
    PassCall =>
        /\ call.table = TableOf(call.op)
        /\ \A i \in DOMAIN visited : visited[i].entry.home = TableOf(call.op)
        /\ FiredKeys \subseteq VisitedKeys
        /\ (call.returned /\ visited = <<>>) => (fired = <<>> /\ ~call.response)

\* C17 witness: a prompt-trigger pass has returned having invoked the one callback
\* of its collection while the trigger collection holds an enabled entry that
\* matches the same input.
C17_Witness ==
    /\ call.op = "check_for_prompt_trigger_match" /\ call.returned
    /\ Len(fired) = 1 /\ Len(visited) = 1
    /\ \E k \in DOMAIN state.trigger_table : Fires(state.trigger_table[k], call.input)

\* The line as a terminal shows it.
Visible(raw) == IF raw = <<ESC, "[", "m", "b">> THEN <<"b">> ELSE raw

\* The entry the pass examined at key k.
VisitedAt(k) == visited[CHOOSE j \in DOMAIN visited : visited[j].key = k].entry

\* C14: a trigger or prompt-trigger pass decides on the line without its escape
\* sequences and hands the callback the captures of that text ("b" inside a colour
\* escape fires ^b); an alias pass decides on the line as received.
C14_TriggersMatchStrippedText ==
    /\ TriggerCall =>
          /\ call.input = Visible(call.raw)
          /\ \A i \in DOMAIN visited :
                (visited[i].key \in FiredKeys) <=>
                    Fires(visited[i].entry, Visible(call.raw))
          /\ \A i \in DOMAIN fired :
                /\ fired[i].args =
                      CaptureArgs(Captures(VisitedAt(fired[i].key).regex, Visible(call.raw)))
                /\ \A g \in DOMAIN fired[i].args :
                      \A c \in DOMAIN fired[i].args[g] : fired[i].args[g][c] # ESC
    /\ AliasCall =>
          /\ call.input = call.raw
          /\ \A i \in DOMAIN visited :
                (visited[i].key \in FiredKeys) <=> Fires(visited[i].entry, call.raw)

\* C14 witness: a trigger pass on "b" wrapped in a colour escape has invoked the
\* callback of a ^b trigger.
C14_Witness ==
    /\ TriggerCall /\ call.returned
    /\ call.raw = <<ESC, "[", "m", "b">>
    /\ \E i \in DOMAIN fired : VisitedAt(fired[i].key).regex = "^b"

\* The number of groups each pattern has.
GroupCount(regex) ==
    CASE regex = "a" -> 0
      [] regex = "^b" -> 0
      [] regex = GroupRegex -> 2

\* C15: the arguments of an invoked callback are as many as the pattern has groups
\* (and one for the whole match), each the text of the group at its position, the
\* empty string for a group that took no part.
C15_ArgsAlignWithGroups ==
    PassCall =>
        \A i \in DOMAIN fired :
            LET regex == VisitedAt(fired[i].key).regex
                args == fired[i].args
            IN  /\ Len(args) = GroupCount(regex) + 1
                /\ regex = GroupRegex =>
                      /\ args[2] = (IF call.input[1] = "a" THEN <<"a">> ELSE <<>>)
                      /\ args[3] = <<"b">>
                      /\ args[1] = args[2] \o args[3]

\* C15 witness: a callback of the pattern ^(a)?(b) has been invoked on a line that
\* starts with b, with the empty string in the place of the first group.
C15_Witness ==
    /\ PassCall
    /\ \E i \in DOMAIN fired :
          /\ VisitedAt(fired[i].key).regex = GroupRegex
          /\ fired[i].args = << <<"b">>, <<>>, <<"b">> >>

\* C13, as claimed: no host call panics because of script code: not a hook call
\* whose hook raised an error, and not a pass over a table in which a script stored
\* a value that is not an entry.
C13_ScriptFailureNeverPanics ==
    pc = "panic" => ~(HookCall \/ PassCall)

\* C18, as claimed: the entries a pass examines are bounded by the table as it was
\* when the pass began: entries that callbacks register during the pass do not
\* extend it.
C18_PassIsBoundedByItsStart ==
    PassCall => Len(visited) <= Cardinality({k \in DOMAIN snap : snap[k] # Nil})

====
